---- MODULE Spec2Model ----
(***************************************************************************)
(* Model of src/main_app.py: the fixed-income return calculator            *)
(* (class Investimento and its subclasses) and the Streamlit entry point   *)
(* main() that drives it.                                                  *)
(*                                                                         *)
(* Numbers.  The program computes with Python int and float.  The model    *)
(* computes with exact rationals <<numerator, denominator>> (denominator   *)
(* positive, lowest terms), so every value is the real number the Python   *)
(* expression denotes; binary rounding of float (of the order of 1e-13 on  *)
(* the values used here) is not modelled.  Python exceptions are modelled  *)
(* as outcomes: a result record carries tipo = "ok" or the exception name. *)
(***************************************************************************)
EXTENDS Integers, Sequences, FiniteSets, TLC

VARIABLES
    relogio,                      \* dt.datetime.now().year, the wall-clock year
    inv,                          \* the Investimento object (self)
    pc,                           \* position of the current calcular_rentabilidade call
    args,                         \* arguments of the current / last call
    mes,                          \* loop variable of the coupon loop (0 before the first iteration)
    rentabilidade_liquida_total,  \* accumulator of the coupon loop
    rentabilidade_liquida,        \* local of calcular_rentabilidade after line 45 / 54 / 56
    retorno,                      \* what the last call returned or raised
    lembrado,                     \* a result the caller kept from an earlier call on the same object
    meses_arg,                    \* argument of a direct calcular_aliquota_ir call
    aliquota_ret,                 \* its return value
    escolha,                      \* the view selected in the sidebar in the last run of main
    resultados_investimentos,     \* main's dictionary at the end of the last run
    anterior,                     \* what the run before the last left in its dictionary:
                                  \* "vazio", or the kind of the value stored ("df", "None")
    tela                          \* what the last run of main rendered

vars == <<relogio, inv, pc, args, mes, rentabilidade_liquida_total,
          rentabilidade_liquida, retorno, lembrado, meses_arg, aliquota_ret,
          escolha, resultados_investimentos, anterior, tela>>

motorVars == <<inv, pc, args, mes, rentabilidade_liquida_total,
               rentabilidade_liquida, retorno, lembrado>>
aliquotaVars == <<meses_arg, aliquota_ret>>
mainVars == <<escolha, resultados_investimentos, anterior, tela>>

(***************************************************************************)
(* Bounds of the model.                                                    *)
(***************************************************************************)
AnoInicial == 2026      \* wall-clock year in the initial state
MaxTicks == 1           \* how many times the wall-clock year may advance
MaxAnos == 3            \* longest holding period offered: maturity up to AnoInicial + MaxAnos
MaxMeses == 120         \* largest argument of a direct calcular_aliquota_ir call

(***************************************************************************)
(* Exact rational arithmetic.                                              *)
(***************************************************************************)
Abs(x) == IF x < 0 THEN -x ELSE x

\* Min, Max and RLt serve the properties at the end of the module
Min(a, b) == IF a <= b THEN a ELSE b

Max(a, b) == IF a >= b THEN a ELSE b

RECURSIVE GCD(_, _)
GCD(a, b) == IF b = 0 THEN a ELSE GCD(b, a % b)

\* n/d in lowest terms with a positive denominator (d # 0)
Rat(n, d) ==
    LET g == GCD(Abs(n), Abs(d))
        s == IF d < 0 THEN -1 ELSE 1
    IN  <<s * (n \div g), s * (d \div g)>>

R(n) == <<n, 1>>

RAdd(a, b) == Rat(a[1] * b[2] + b[1] * a[2], a[2] * b[2])

RNeg(a) == <<-a[1], a[2]>>

RSub(a, b) == RAdd(a, RNeg(b))

\* cross-cancels before multiplying, to keep the intermediate integers small
RMul(a, b) ==
    LET g1 == GCD(Abs(a[1]), b[2])
        g2 == GCD(Abs(b[1]), a[2])
    IN  Rat((a[1] \div g1) * (b[1] \div g2), (a[2] \div g2) * (b[2] \div g1))

\* b # 0
RInv(b) == Rat(b[2], b[1])

RDiv(a, b) == RMul(a, RInv(b))

RLt(a, b) == a[1] * b[2] < b[1] * a[2]

RECURSIVE RPowNat(_, _)
RPowNat(a, n) == IF n = 0 THEN R(1) ELSE RMul(a, RPowNat(a, n - 1))

\* Python's a ** n for an integer n; a = 0 with n < 0 raises (see PotenciaFalha)
RPow(a, n) == IF n >= 0 THEN RPowNat(a, n) ELSE RInv(RPowNat(a, -n))

\* 0.0 ** n with n < 0: ZeroDivisionError
PotenciaFalha(a, n) == a[1] = 0 /\ n < 0

(***************************************************************************)
(* class Investimento                                                      *)
(***************************************************************************)
\* lines 8-13, __init__: the object's five attributes; agora is dt.datetime.now().year
Investimento(investimento_inicial, vencimento_ano, agora) ==
    [ investimento_inicial |-> investimento_inicial,
      vencimento_ano       |-> vencimento_ano,
      ano_atual            |-> agora,
      periodo_anos         |-> vencimento_ano - agora,
      periodo_meses        |-> (vencimento_ano - agora) * 12 ]

calcular_aliquota_ir_exclusivo(meses) ==
    IF meses < 6 THEN Rat(225, 1000)
    ELSE IF meses < 12 THEN Rat(20, 100)
    ELSE IF meses < 24 THEN Rat(175, 1000)
    ELSE Rat(15, 100)

\* lines 15-24
calcular_aliquota_ir(meses) ==
    IF meses <= 6 THEN Rat(225, 1000)
    ELSE IF meses <= 12 THEN Rat(20, 100)
    ELSE IF meses <= 24 THEN Rat(175, 1000)
    ELSE Rat(15, 100)

\* outcome records of a call: a returned dictionary or a raised exception
Ok(valor, porcentagem) == [tipo |-> "ok", valor |-> valor, porcentagem |-> porcentagem]

Erro(nome) == [tipo |-> nome, valor |-> R(0), porcentagem |-> R(0)]

Nada == Erro("nada")

bruta_falha_qualquer_tipo(self, taxa_anual, tipo_juros) ==
    PotenciaFalha(RAdd(R(1), taxa_anual), self.periodo_anos)

\* line 48: 0.0 ** (negative integer) raises before anything else is computed
bruta_falha(self, taxa_anual, tipo_juros) ==
    /\ tipo_juros = "composto"
    /\ PotenciaFalha(RAdd(R(1), taxa_anual), self.periodo_anos)

rentabilidade_bruta_sem_subtrair(self, taxa_anual, tipo_juros) ==
    IF tipo_juros = "composto"
    THEN RMul(R(self.investimento_inicial), RPow(RAdd(R(1), taxa_anual), self.periodo_anos))
    ELSE RMul(RMul(R(self.investimento_inicial), taxa_anual), R(self.periodo_anos))

\* lines 47-50
rentabilidade_bruta(self, taxa_anual, tipo_juros) ==
    IF tipo_juros = "composto"
    THEN RSub(RMul(R(self.investimento_inicial),
                   RPow(RAdd(R(1), taxa_anual), self.periodo_anos)),
              R(self.investimento_inicial))
    ELSE RMul(RMul(R(self.investimento_inicial), taxa_anual), R(self.periodo_anos))

liquida_sem_cupom_ir_por_ano(self, taxa_anual, tipo_juros, tem_ir) ==
    IF tem_ir
    THEN RMul(rentabilidade_bruta(self, taxa_anual, tipo_juros),
              RSub(R(1), calcular_aliquota_ir(self.periodo_anos)))
    ELSE rentabilidade_bruta(self, taxa_anual, tipo_juros)

\* lines 47-56: the value of rentabilidade_liquida when cupom_mensal is false
liquida_sem_cupom(self, taxa_anual, tipo_juros, tem_ir) ==
    IF tem_ir
    THEN RMul(rentabilidade_bruta(self, taxa_anual, tipo_juros),
              RSub(R(1), calcular_aliquota_ir(self.periodo_meses)))
    ELSE rentabilidade_bruta(self, taxa_anual, tipo_juros)

parcela_cupom_composta(self, taxa_anual, total, m) ==
    RAdd(total,
         RMul(RAdd(R(self.investimento_inicial), total),
              RMul(RDiv(taxa_anual, R(12)), RSub(R(1), calcular_aliquota_ir(m)))))

\* lines 42-44: one iteration of the coupon loop, for month m, on the running total
parcela_cupom(self, taxa_anual, total, m) ==
    RAdd(total,
         RMul(R(self.investimento_inicial),
              RMul(RDiv(taxa_anual, R(12)), RSub(R(1), calcular_aliquota_ir(m)))))

ultimo_mes_mais_um(self) == self.periodo_meses + 1

\* line 41: the last month of range(1, periodo_meses + 1); the range is empty when it is < 1
ultimo_mes(self) == self.periodo_meses

\* lines 40-45: the iterations of the loop for the months de..ate, in increasing order,
\* on the running total.  The months are taken half by half only to keep the
\* evaluation shallow; the order of the iterations is that of the loop.
RECURSIVE laco_cupom(_, _, _, _, _)
laco_cupom(self, taxa_anual, total, de, ate) ==
    IF de > ate THEN total
    ELSE IF de = ate THEN parcela_cupom(self, taxa_anual, total, de)
    ELSE LET meio == (de + ate) \div 2
             ate_meio == laco_cupom(self, taxa_anual, total, de, meio)
         IN  IF ate_meio[2] > 0    \* always true: the first half is evaluated first
             THEN laco_cupom(self, taxa_anual, ate_meio, meio + 1, ate)
             ELSE ate_meio

retornar_sem_erro(self, liquida) ==
    IF self.investimento_inicial = 0
    THEN Ok(liquida, R(0))
    ELSE Ok(liquida, RMul(RDiv(liquida, R(self.investimento_inicial)), R(100)))

\* lines 58-62: the percentage and the returned dictionary
retornar(self, liquida) ==
    IF self.investimento_inicial = 0
    THEN Erro("ZeroDivisionError")
    ELSE Ok(liquida, RMul(RDiv(liquida, R(self.investimento_inicial)), R(100)))

calcular_rentabilidade_cupom_isento(self, taxa_anual, tipo_juros, cupom_mensal, tem_ir) ==
    IF cupom_mensal
    THEN IF tem_ir
         THEN retornar(self, laco_cupom(self, taxa_anual, R(0), 1, ultimo_mes(self)))
         ELSE retornar(self, RMul(RMul(R(self.investimento_inicial), RDiv(taxa_anual, R(12))),
                                  R(Max(self.periodo_meses, 0))))
    ELSE IF bruta_falha(self, taxa_anual, tipo_juros)
         THEN Erro("ZeroDivisionError")
         ELSE retornar(self, liquida_sem_cupom(self, taxa_anual, tipo_juros, tem_ir))

\* lines 26-62, the call as a whole (also InvestimentoPosFixado and
\* InvestimentoInflacao, lines 70-75 and 79-84, which only delegate to it)
calcular_rentabilidade(self, taxa_anual, tipo_juros, cupom_mensal, tem_ir) ==
    IF cupom_mensal
    THEN retornar(self, laco_cupom(self, taxa_anual, R(0), 1, ultimo_mes(self)))
    ELSE IF bruta_falha(self, taxa_anual, tipo_juros)
         THEN Erro("ZeroDivisionError")
         ELSE retornar(self, liquida_sem_cupom(self, taxa_anual, tipo_juros, tem_ir))

(***************************************************************************)
(* Inputs.                                                                 *)
(***************************************************************************)
Iniciais == {-1000, 0, 1000}

Vencimentos == (AnoInicial - 1) .. (AnoInicial + MaxAnos)

Taxas == {R(-1), R(0), Rat(1, 10), Rat(3, 25)}

Tipos == {"composto", "simples"}

\* the defaults of the signature at line 26
ArgsPadrao ==
    [taxa_anual |-> R(0), tipo_juros |-> "composto", cupom_mensal |-> FALSE, tem_ir |-> TRUE]

NadaLembrado == [tem |-> FALSE, args |-> ArgsPadrao, retorno |-> Nada, relogio |-> AnoInicial]

(***************************************************************************)
(* The calculator, one call at a time, the coupon loop step by step.       *)
(***************************************************************************)
\* Investimento(...) at lines 233-235: a new object, built from the clock
Construir(investimento_inicial, vencimento_ano) ==
    /\ pc \in {"ocioso", "retornou"}
    /\ inv' = Investimento(investimento_inicial, vencimento_ano, relogio)
    /\ pc' = "ocioso"
    /\ args' = ArgsPadrao
    /\ mes' = 0
    /\ rentabilidade_liquida_total' = R(0)
    /\ rentabilidade_liquida' = R(0)
    /\ retorno' = Nada
    /\ lembrado' = NadaLembrado
    /\ UNCHANGED <<relogio, aliquotaVars, mainVars>>

\* the wall-clock year advances; no object is touched
AvancarRelogio ==
    /\ relogio < AnoInicial + MaxTicks
    /\ relogio' = relogio + 1
    /\ UNCHANGED <<motorVars, aliquotaVars, mainVars>>

ChamarSemZerar(taxa_anual, tipo_juros, cupom_mensal, tem_ir) ==
    /\ pc \in {"ocioso", "retornou"}
    /\ args' = [taxa_anual |-> taxa_anual, tipo_juros |-> tipo_juros,
                cupom_mensal |-> cupom_mensal, tem_ir |-> tem_ir]
    /\ mes' = 0
    /\ UNCHANGED rentabilidade_liquida_total
    /\ IF cupom_mensal
       THEN /\ pc' = "laco"
            /\ UNCHANGED <<rentabilidade_liquida, retorno>>
       ELSE IF bruta_falha(inv, taxa_anual, tipo_juros)
            THEN /\ pc' = "retornou"
                 /\ retorno' = Erro("ZeroDivisionError")
                 /\ UNCHANGED rentabilidade_liquida
            ELSE /\ pc' = "linha58"
                 /\ rentabilidade_liquida' = liquida_sem_cupom(inv, taxa_anual, tipo_juros, tem_ir)
                 /\ UNCHANGED retorno
    /\ UNCHANGED <<relogio, inv, lembrado, aliquotaVars, mainVars>>

\* entry of calcular_rentabilidade: line 40 (coupon) or lines 47-56 (no coupon)
Chamar(taxa_anual, tipo_juros, cupom_mensal, tem_ir) ==
    /\ pc \in {"ocioso", "retornou"}
    /\ args' = [taxa_anual |-> taxa_anual, tipo_juros |-> tipo_juros,
                cupom_mensal |-> cupom_mensal, tem_ir |-> tem_ir]
    /\ mes' = 0
    /\ rentabilidade_liquida_total' = R(0)
    /\ IF cupom_mensal
       THEN /\ pc' = "laco"
            /\ rentabilidade_liquida' = R(0)
            /\ retorno' = Nada
       ELSE IF bruta_falha(inv, taxa_anual, tipo_juros)
            THEN /\ pc' = "retornou"
                 /\ retorno' = Erro("ZeroDivisionError")
                 /\ rentabilidade_liquida' = R(0)
            ELSE /\ pc' = "linha58"
                 /\ rentabilidade_liquida' = liquida_sem_cupom(inv, taxa_anual, tipo_juros, tem_ir)
                 /\ retorno' = Nada
    /\ UNCHANGED <<relogio, inv, lembrado, aliquotaVars, mainVars>>

\* lines 41-44: one iteration of the coupon loop
IterarCupom ==
    /\ pc = "laco"
    /\ mes < ultimo_mes(inv)
    /\ mes' = mes + 1
    /\ rentabilidade_liquida_total' =
           parcela_cupom(inv, args.taxa_anual, rentabilidade_liquida_total, mes + 1)
    /\ UNCHANGED <<relogio, inv, pc, args, rentabilidade_liquida, retorno, lembrado,
                   aliquotaVars, mainVars>>

\* line 45: the loop is exhausted
SairDoLaco ==
    /\ pc = "laco"
    /\ ~(mes < ultimo_mes(inv))
    /\ rentabilidade_liquida' = rentabilidade_liquida_total
    /\ pc' = "linha58"
    /\ UNCHANGED <<relogio, inv, args, mes, rentabilidade_liquida_total, retorno, lembrado,
                   aliquotaVars, mainVars>>

\* lines 58-62
Retornar ==
    /\ pc = "linha58"
    /\ retorno' = retornar(inv, rentabilidade_liquida)
    /\ pc' = "retornou"
    /\ UNCHANGED <<relogio, inv, args, mes, rentabilidade_liquida_total,
                   rentabilidade_liquida, lembrado, aliquotaVars, mainVars>>

\* the caller takes the returned dictionary and keeps it (as lines 121-128 keep both
\* results in resultados); the object is then ready for the next call
Guardar ==
    /\ pc = "retornou"
    /\ ~lembrado.tem
    /\ lembrado' = [tem |-> TRUE, args |-> args, retorno |-> retorno, relogio |-> relogio]
    /\ pc' = "ocioso"
    /\ UNCHANGED <<relogio, inv, args, mes, rentabilidade_liquida_total,
                   rentabilidade_liquida, retorno, aliquotaVars, mainVars>>

(***************************************************************************)
(* calcular_aliquota_ir called on its own.                                 *)
(***************************************************************************)
AliquotaInit == meses_arg = 0 /\ aliquota_ret = R(0)

ChamarAliquota(meses) ==
    /\ meses_arg' = meses
    /\ aliquota_ret' = calcular_aliquota_ir(meses)
    /\ UNCHANGED <<relogio, motorVars, mainVars>>

(***************************************************************************)
(* The views and main().  One action is one run of main (one Streamlit     *)
(* rerun) with the widget values of that run.                              *)
(***************************************************************************)
\* round(q) to the nearest integer, ties to even: what the .2f / .2% formats do
\* to a value scaled by 100 / 10000
Arredondar(q) ==
    LET piso  == q[1] \div q[2]
        resto == q[1] % q[2]
    IN  IF 2 * resto < q[2] THEN piso
        ELSE IF 2 * resto > q[2] THEN piso + 1
        ELSE IF piso % 2 = 0 THEN piso ELSE piso + 1

\* f"R$ {x:,.2f}" and f"{x:.2f}%": the text is determined by x in hundredths
Formatar2f(x) == Arredondar(RMul(x, R(100)))

\* f"{x:.2%}": the text is determined by x in hundredths of a percent
FormatarPct(x) == Arredondar(RMul(x, R(10000)))

\* lines 89-105: the two-row table
exibir_resultados(resultados, periodo_anos, investimento_inicial, cupom_mensal_com_ir, cupom_mensal_sem_ir, taxa_com_ir, taxa_sem_ir) ==
    [ tipo    |-> "df",
      indice  |-> <<"Com IR", "Sem IR">>,
      colunas |-> {"Investimento Inicial", "Vencimento (anos)", "Cupom Mensal", "Taxa",
                   "Rentabilidade Liquida", "Rentabilidade Total (%)"},
      linhas  |-> << [ inicial    |-> Formatar2f(R(investimento_inicial)),
                       vencimento |-> periodo_anos,
                       cupom      |-> cupom_mensal_com_ir,
                       taxa       |-> FormatarPct(taxa_com_ir),
                       liquida    |-> Formatar2f(resultados.com_ir.valor),
                       total      |-> Formatar2f(resultados.com_ir.porcentagem) ],
                     [ inicial    |-> Formatar2f(R(investimento_inicial)),
                       vencimento |-> periodo_anos,
                       cupom      |-> cupom_mensal_sem_ir,
                       taxa       |-> FormatarPct(taxa_sem_ir),
                       liquida    |-> Formatar2f(resultados.sem_ir.valor),
                       total      |-> Formatar2f(resultados.sem_ir.porcentagem) ] >> ]

\* the value a view returns when its guard is false, and when a call raised
SemTabela(tipo) ==
    [tipo |-> tipo, indice |-> << >>, colunas |-> {}, linhas |-> << >>]

\* lines 121-130, 147-156, 174-183: the two calls and the table; taxa_*_calc go to
\* calcular_rentabilidade, taxa_*_exib to the table's Taxa column
calcular_e_exibir(investimento, taxa_com_calc, taxa_sem_calc, taxa_com_exib, taxa_sem_exib, cupom_mensal_com_ir, cupom_mensal_sem_ir) ==
    LET com == calcular_rentabilidade(investimento, taxa_com_calc, "composto",
                                      cupom_mensal_com_ir, TRUE)
        sem == calcular_rentabilidade(investimento, taxa_sem_calc, "composto",
                                      cupom_mensal_sem_ir, FALSE)
    IN  IF com.tipo # "ok" THEN SemTabela(com.tipo)
        ELSE IF sem.tipo # "ok" THEN SemTabela(sem.tipo)
        ELSE exibir_resultados([com_ir |-> com, sem_ir |-> sem], investimento.periodo_anos,
                               investimento.investimento_inicial,
                               cupom_mensal_com_ir, cupom_mensal_sem_ir,
                               taxa_com_exib, taxa_sem_exib)

\* lines 109-130; the percentages are the number_input values
exibir_pre_fixado(investimento, pct_com_ir, cupom_mensal_com_ir, pct_sem_ir, cupom_mensal_sem_ir) ==
    LET taxa_com_ir == Rat(pct_com_ir, 100)
        taxa_sem_ir == Rat(pct_sem_ir, 100)
    IN  IF taxa_com_ir # R(0) \/ taxa_sem_ir # R(0)
        THEN calcular_e_exibir(investimento, taxa_com_ir, taxa_sem_ir, taxa_com_ir, taxa_sem_ir,
                               cupom_mensal_com_ir, cupom_mensal_sem_ir)
        ELSE SemTabela("None")

\* lines 132-156
exibir_pos_fixado(investimento, pct_cdi, pct_com_ir, cupom_mensal_com_ir, pct_sem_ir, cupom_mensal_sem_ir) ==
    LET cdi_anual == Rat(pct_cdi, 100)
        percentual_cdi_com_ir == Rat(pct_com_ir, 100)
        percentual_cdi_sem_ir == Rat(pct_sem_ir, 100)
        taxa_com_ir == RMul(cdi_anual, percentual_cdi_com_ir)
        taxa_sem_ir == RMul(cdi_anual, percentual_cdi_sem_ir)
    IN  IF cdi_anual # R(0) /\ (percentual_cdi_com_ir # R(0) \/ percentual_cdi_sem_ir # R(0))
        THEN calcular_e_exibir(investimento, taxa_com_ir, taxa_sem_ir, taxa_com_ir, taxa_sem_ir,
                               cupom_mensal_com_ir, cupom_mensal_sem_ir)
        ELSE SemTabela("None")

\* lines 158-183: the effective rates go to the calculation, the entered ones to the table
exibir_inflacao(investimento, pct_inflacao, pct_com_ir, cupom_mensal_com_ir, pct_sem_ir, cupom_mensal_sem_ir) ==
    LET inflacao_anual == Rat(pct_inflacao, 100)
        taxa_com_ir == Rat(pct_com_ir, 100)
        taxa_sem_ir == Rat(pct_sem_ir, 100)
        taxa_efetiva_com_ir == RAdd(inflacao_anual, taxa_com_ir)
        taxa_efetiva_sem_ir == RAdd(inflacao_anual, taxa_sem_ir)
    IN  IF inflacao_anual # R(0) /\ (taxa_com_ir # R(0) \/ taxa_sem_ir # R(0))
        THEN calcular_e_exibir(investimento, taxa_efetiva_com_ir, taxa_efetiva_sem_ir,
                               taxa_com_ir, taxa_sem_ir,
                               cupom_mensal_com_ir, cupom_mensal_sem_ir)
        ELSE SemTabela("None")

\* lines 185-214: a dictionary is a sequence of [chave, valor] in insertion order.
\* A non-empty one never reaches st.table: a None value has no iterrows, and a
\* table has no column 'Vencimento' (its column is 'Vencimento (anos)').
exibir_resumo(resultados) ==
    IF Len(resultados) > 0
    THEN IF resultados[1].valor.tipo = "None"
         THEN "AttributeError"
         ELSE IF "Vencimento" \in resultados[1].valor.colunas
              THEN "tabela"
              ELSE "KeyError"
    ELSE "Nenhum resultado de investimento disponivel."

\* d[chave] = valor on a Python dict
Atribuir(d, chave, valor) ==
    IF \E k \in 1..Len(d) : d[k].chave = chave
    THEN [k \in 1..Len(d) |-> IF d[k].chave = chave THEN [chave |-> chave, valor |-> valor]
                                                    ELSE d[k]]
    ELSE Append(d, [chave |-> chave, valor |-> valor])

\* the kind of content of a dictionary: "vazio", or the kind of its first value
Conteudo(d) == IF Len(d) = 0 THEN "vazio" ELSE d[1].valor.tipo

DicionarioPersistente == resultados_investimentos

\* line 230: resultados_investimentos = {}
DicionarioNovo == << >>

\* lines 237-242: one of the three calculating views; tabela is what the view returned
\* or the exception that ended the run before the assignment
MainVista(nome, tabela) ==
    /\ escolha' = nome
    /\ anterior' = Conteudo(resultados_investimentos)
    /\ IF tabela.tipo \in {"df", "None"}
       THEN /\ resultados_investimentos' = Atribuir(DicionarioNovo, nome, tabela)
            /\ tela' = tabela.tipo
       ELSE /\ resultados_investimentos' = DicionarioNovo
            /\ tela' = tabela.tipo
    /\ UNCHANGED <<relogio, motorVars, aliquotaVars>>

\* lines 217-238 with escolha = 'Pré-fixado'
MainPre(investimento_inicial, vencimento_ano, pct_com_ir, cupom_com, pct_sem_ir, cupom_sem) ==
    MainVista("Pre-fixado",
              exibir_pre_fixado(Investimento(investimento_inicial, vencimento_ano, relogio),
                                pct_com_ir, cupom_com, pct_sem_ir, cupom_sem))

\* lines 217-240 with escolha = 'Pós Fixado'
MainPos(investimento_inicial, vencimento_ano, pct_cdi, pct_com_ir, cupom_com, pct_sem_ir, cupom_sem) ==
    MainVista("Pos Fixado",
              exibir_pos_fixado(Investimento(investimento_inicial, vencimento_ano, relogio),
                                pct_cdi, pct_com_ir, cupom_com, pct_sem_ir, cupom_sem))

\* lines 217-242 with escolha = 'Inflação'
MainInf(investimento_inicial, vencimento_ano, pct_inflacao, pct_com_ir, cupom_com, pct_sem_ir, cupom_sem) ==
    MainVista("Inflacao",
              exibir_inflacao(Investimento(investimento_inicial, vencimento_ano, relogio),
                              pct_inflacao, pct_com_ir, cupom_com, pct_sem_ir, cupom_sem))

\* lines 217-244 with escolha = 'Resumo'
MainResumo ==
    /\ escolha' = "Resumo"
    /\ anterior' = Conteudo(resultados_investimentos)
    /\ resultados_investimentos' = DicionarioNovo
    /\ tela' = exibir_resumo(DicionarioNovo)
    /\ UNCHANGED <<relogio, motorVars, aliquotaVars>>

\* before the first run
MainInit ==
    /\ escolha = "nenhuma"
    /\ resultados_investimentos = << >>
    /\ anterior = "vazio"
    /\ tela = "nada"

(***************************************************************************)
(* Specifications.                                                         *)
(***************************************************************************)
MotorInit(investimento_inicial, vencimento_ano) ==
    /\ relogio = AnoInicial
    /\ inv = Investimento(investimento_inicial, vencimento_ano, AnoInicial)
    /\ pc = "ocioso"
    /\ args = ArgsPadrao
    /\ mes = 0
    /\ rentabilidade_liquida_total = R(0)
    /\ rentabilidade_liquida = R(0)
    /\ retorno = Nada
    /\ lembrado = NadaLembrado

\* the calculator
Init ==
    /\ \E i \in Iniciais, v \in Vencimentos : MotorInit(i, v)
    /\ AliquotaInit
    /\ MainInit

\* no call in progress; the object has the sidebar's default values (lines 222-223)
InitParado ==
    /\ MotorInit(50000, 2026)
    /\ AliquotaInit
    /\ MainInit

Next ==
    \/ \E i \in Iniciais, v \in Vencimentos : Construir(i, v)
    \/ AvancarRelogio
    \/ \E t \in Taxas, j \in Tipos, c \in BOOLEAN, ir \in BOOLEAN : Chamar(t, j, c, ir)
    \/ IterarCupom
    \/ SairDoLaco
    \/ Retornar

Spec == Init /\ [][Next]_vars

\* the calculator with a caller that keeps one returned dictionary and calls again
NextRepetir == Next \/ Guardar

SpecRepetir == Init /\ [][NextRepetir]_vars

\* calcular_aliquota_ir alone
NextAliquota == \E m \in (-MaxMeses) .. MaxMeses : ChamarAliquota(m)

SpecAliquota == InitParado /\ [][NextAliquota]_vars

\* runs of main; the values offered to the sidebar and to the forms (percentages)
IniciaisMain == {0, 1000}

VencimentosMain == {AnoInicial - 1, AnoInicial + MaxAnos - 1}

Pcts == {0, 10}

PctsCdi == {0, 120}

NextMain ==
    \/ AvancarRelogio
    \/ \E i \in IniciaisMain, v \in VencimentosMain, a \in Pcts, b \in Pcts,
          ca \in BOOLEAN, cb \in BOOLEAN :
           MainPre(i, v, a, ca, b, cb)
    \/ \E i \in IniciaisMain, v \in VencimentosMain, cdi \in Pcts, a \in PctsCdi, b \in PctsCdi,
          ca \in BOOLEAN, cb \in BOOLEAN :
           MainPos(i, v, cdi, a, ca, b, cb)
    \/ \E i \in IniciaisMain, v \in VencimentosMain, inf \in Pcts, a \in Pcts, b \in Pcts,
          ca \in BOOLEAN, cb \in BOOLEAN :
           MainInf(i, v, inf, a, ca, b, cb)
    \/ MainResumo

SpecMain == InitParado /\ [][NextMain]_vars

(***************************************************************************)
(* Properties.                                                             *)
(***************************************************************************)
\* the bracket table of the specification, section 4.1
FaixaTabela(m) ==
    CASE m <= 6 -> <<9, 40>>
      [] m >= 7 /\ m <= 12 -> <<1, 5>>
      [] m >= 13 /\ m <= 24 -> <<7, 40>>
      [] OTHER -> <<3, 20>>

\* the sum over m = de..ate of principal * (taxa / 12) * (1 - FaixaTabela(m))
RECURSIVE SomaMeses(_, _, _, _)
SomaMeses(principal, taxa, de, ate) ==
    IF de > ate THEN R(0)
    ELSE IF de = ate
         THEN RMul(R(principal), RMul(RDiv(taxa, R(12)), RSub(R(1), FaixaTabela(de))))
         ELSE RAdd(SomaMeses(principal, taxa, de, (de + ate) \div 2),
                   SomaMeses(principal, taxa, (de + ate) \div 2 + 1, ate))

\* the brackets of the first n months added up: 22.5% on months 1-6, 20% on 7-12,
\* 17.5% on 13-24, 15% on the rest
FaixasAcumuladas(n) ==
    RAdd(RAdd(RMul(<<9, 40>>, R(Min(n, 6))),
              RMul(<<1, 5>>, R(Max(0, Min(n, 12) - 6)))),
         RAdd(RMul(<<7, 40>>, R(Max(0, Min(n, 24) - 12))),
              RMul(<<3, 20>>, R(Max(0, n - 24)))))

Retornou == pc = "retornou"

\* C1: calcular_aliquota_ir returns 22.5% for meses <= 6, 20% for 7..12, 17.5% for
\* 13..24 and 15% above 24, for every integer argument, and never rises as meses grows.
C1_TabelaAliquota ==
    aliquota_ret # R(0) =>
        /\ aliquota_ret = FaixaTabela(meses_arg)
        /\ (meses_arg \in {1, 6} => aliquota_ret = <<9, 40>>)
        /\ (meses_arg \in {7, 12} => aliquota_ret = <<1, 5>>)
        /\ (meses_arg \in {13, 24} => aliquota_ret = <<7, 40>>)
        /\ (meses_arg \in {25, 100} => aliquota_ret = <<3, 20>>)
        /\ \A m \in meses_arg .. MaxMeses : ~RLt(aliquota_ret, calcular_aliquota_ir(m))
        /\ \A m \in (-MaxMeses) .. meses_arg : ~RLt(calcular_aliquota_ir(m), aliquota_ret)

C1_Witness == meses_arg = 24 /\ aliquota_ret = <<7, 40>>

C3_SemCupom ==
    (Retornou /\ ~args.cupom_mensal /\ retorno.tipo = "ok") =>
        LET principal == R(inv.investimento_inicial)
            bruta == IF args.tipo_juros = "composto"
                     THEN RSub(RMul(principal,
                                    RPow(RAdd(R(1), args.taxa_anual), inv.periodo_anos)),
                               principal)
                     ELSE RMul(principal, RMul(args.taxa_anual, R(inv.periodo_anos)))
            liquida == IF args.tem_ir
                       THEN RMul(bruta, RSub(R(1), FaixaTabela(inv.periodo_meses)))
                       ELSE bruta
            exemplo == /\ inv.investimento_inicial = 1000
                       /\ args.taxa_anual = <<1, 10>>
                       /\ inv.periodo_anos = 2
        IN  /\ retorno.valor = liquida
            /\ retorno.porcentagem = RMul(RDiv(liquida, principal), R(100))
            /\ (exemplo /\ args.tipo_juros = "composto" /\ ~args.tem_ir) =>
                   retorno.valor = R(210) /\ retorno.porcentagem = R(21)
            /\ (exemplo /\ args.tipo_juros = "composto" /\ args.tem_ir) =>
                   retorno.valor = <<693, 4>> /\ retorno.porcentagem = <<693, 40>>
            /\ (exemplo /\ args.tipo_juros = "simples" /\ ~args.tem_ir) =>
                   retorno.valor = R(200)

C3_Witness ==
    /\ Retornou
    /\ ~args.cupom_mensal
    /\ args.tem_ir
    /\ args.tipo_juros = "composto"
    /\ args.taxa_anual = <<1, 10>>
    /\ inv.investimento_inicial = 1000
    /\ inv.periodo_anos = 2
    /\ retorno.valor = <<693, 4>>

\* C4, state part: the coupon loop takes the months 1..periodo_meses one by one in
\* increasing order; after k iterations the running total is the sum over m = 1..k of
\* principal * (taxa / 12) * (1 - bracket(m)), and on exit net is the sum over all months.
C4_EstadoDoLaco ==
    /\ pc = "laco" =>
           /\ mes \in 0 .. Max(inv.periodo_meses, 0)
           /\ rentabilidade_liquida_total =
                  SomaMeses(inv.investimento_inicial, args.taxa_anual, 1, mes)
           /\ (mes = 1 /\ inv.investimento_inicial = 1000 /\ args.taxa_anual = <<3, 25>>) =>
                  rentabilidade_liquida_total = <<31, 4>>
    /\ (pc \in {"linha58", "retornou"} /\ args.cupom_mensal) =>
           /\ mes = Max(inv.periodo_meses, 0)
           /\ rentabilidade_liquida =
                  SomaMeses(inv.investimento_inicial, args.taxa_anual, 1, inv.periodo_meses)
           /\ (Retornou /\ retorno.tipo = "ok") => retorno.valor = rentabilidade_liquida

\* C4, whole: the loop state above holds in every state, and every step that moves
\* the loop variable moves it to the next month, never past periodo_meses.
C4_LacoCupom ==
    /\ []C4_EstadoDoLaco
    /\ [][(pc = "laco" /\ pc' = "laco" /\ mes' # mes) =>
              (mes' = mes + 1 /\ mes' <= inv.periodo_meses)]_vars

C4_Witness ==
    /\ Retornou
    /\ args.cupom_mensal
    /\ mes = 36
    /\ inv.investimento_inicial = 1000
    /\ args.taxa_anual = <<3, 25>>
    /\ retorno.valor = <<591, 2>>

\* C5: with periodo_meses = 0 and a positive principal every call returns valor = 0
\* and porcentagem = 0, and the coupon loop makes no iteration.
C5_PeriodoZero ==
    (inv.periodo_meses = 0 /\ inv.investimento_inicial > 0) =>
        /\ Retornou => retorno = Ok(R(0), R(0))
        /\ (pc \in {"laco", "linha58", "retornou"} /\ args.cupom_mensal) =>
               mes = 0 /\ rentabilidade_liquida_total = R(0)

C5_Witness ==
    /\ Retornou
    /\ inv.vencimento_ano = inv.ano_atual
    /\ inv.investimento_inicial = 1000
    /\ args.cupom_mensal
    /\ args.taxa_anual = <<3, 25>>
    /\ mes = 0
    /\ retorno.valor = R(0)

\* C6 as claimed: every call with principal <= 0 ends in an error, never in a result.
C6_PrincipalNaoPositivoFalha ==
    (Retornou /\ inv.investimento_inicial <= 0) => retorno.tipo # "ok"

\* the one case in which line 48 raises: 0 ** negative
PotenciaDeZero ==
    /\ ~args.cupom_mensal
    /\ args.tipo_juros = "composto"
    /\ args.taxa_anual = R(-1)
    /\ inv.periodo_anos < 0

\* C6 as amended: principal = 0 always ends in an error (ZeroDivisionError); a negative
\* principal is not rejected: the call returns a dictionary with
\* porcentagem = valor / principal * 100, unless line 48 raises (0 ** negative).
C6_PrincipalZeroFalha ==
    Retornou =>
        /\ inv.investimento_inicial = 0 => retorno.tipo = "ZeroDivisionError"
        /\ inv.investimento_inicial < 0 =>
               IF PotenciaDeZero
               THEN retorno.tipo = "ZeroDivisionError"
               ELSE /\ retorno.tipo = "ok"
                    /\ retorno.valor = rentabilidade_liquida
                    /\ retorno.porcentagem =
                           RMul(RDiv(retorno.valor, R(inv.investimento_inicial)), R(100))

C6_Witness ==
    /\ Retornou
    /\ inv.investimento_inicial = -1000
    /\ inv.periodo_anos = 2
    /\ args = [taxa_anual |-> <<1, 10>>, tipo_juros |-> "composto",
               cupom_mensal |-> FALSE, tem_ir |-> FALSE]
    /\ retorno = Ok(R(-210), R(21))

C8_Idempotente ==
    /\ inv = Investimento(inv.investimento_inicial, inv.vencimento_ano, inv.ano_atual)
    /\ (Retornou /\ lembrado.tem /\ lembrado.args = args) => retorno = lembrado.retorno

C8_Witness ==
    /\ Retornou
    /\ lembrado.tem
    /\ lembrado.args = args
    /\ lembrado.relogio < relogio
    /\ inv.ano_atual < relogio
    /\ args.cupom_mensal
    /\ inv.periodo_meses = 24
    /\ retorno.tipo = "ok"
    /\ RLt(R(0), retorno.valor)

\* C9: with taxa_anual = 0 and a positive principal every call returns valor = 0 and
\* porcentagem = 0, for every period (positive, zero, negative) and every mode.
C9_TaxaZero ==
    (Retornou /\ args.taxa_anual = R(0) /\ inv.investimento_inicial > 0) =>
        retorno = Ok(R(0), R(0))

C9_Witness ==
    /\ Retornou
    /\ args.taxa_anual = R(0)
    /\ inv.investimento_inicial = 1000
    /\ inv.periodo_anos < 0
    /\ ~args.cupom_mensal
    /\ args.tipo_juros = "composto"
    /\ args.tem_ir
    /\ retorno = Ok(R(0), R(0))

\* C10: in every run of main whose view is Resumo the dictionary handed to
\* exibir_resumo is empty and the 'no results' message is shown, whatever the
\* earlier runs stored.
C10_ResumoVazio ==
    escolha = "Resumo" =>
        /\ resultados_investimentos = << >>
        /\ tela = "Nenhum resultado de investimento disponivel."

C10_Witness ==
    /\ escolha = "Resumo"
    /\ anterior = "df"
    /\ tela = "Nenhum resultado de investimento disponivel."

====
